---- MODULE Spec2Model ----
(***************************************************************************)
(* Model of MemberExpression::parse                                        *)
(* (boa_engine/src/syntax/parser/expression/left_hand_side/member.rs).     *)
(*                                                                         *)
(* The recursive-descent parser is unfolded into a state machine: `stack`  *)
(* is the native call stack (one frame per invocation of a parser), each   *)
(* frame's `pc` is the statement the invocation is at, `ret` is the value  *)
(* a callee has just returned.  The cursor lexes lazily: `src` is the      *)
(* sequence of tokens lexed so far, `pos` the number of tokens consumed.   *)
(* A token's span start is its index in `src`.                             *)
(***************************************************************************)
EXTENDS Integers, Sequences, FiniteSets, TLC

VARIABLES src, ended, pos, stack, ret, used, calls, self

vars == <<src, ended, pos, stack, ret, used, calls, self>>

\* Longest token stream the lexer produces before reporting end of input.
MaxLen == 7

-----------------------------------------------------------------------------
\* Tokens (lexer::TokenKind), restricted to the kinds this production
\* distinguishes plus representatives of "any other token".

Kw(k, esc) == [kind |-> "Keyword", kw |-> k, escaped |-> esc]
Ident(s) == [kind |-> "Identifier", sym |-> s]
Punct(p) == [kind |-> "Punctuator", p |-> p]
Bool(b) == [kind |-> "BooleanLiteral", value |-> b]
Null == [kind |-> "NullLiteral"]
Num == [kind |-> "NumericLiteral"]
Priv(s) == [kind |-> "PrivateIdentifier", sym |-> s]
TemplateNoSubstitution == [kind |-> "TemplateNoSubstitution"]
TemplateMiddle == [kind |-> "TemplateMiddle"]

\* A lexer failure at this point of the input: peek/next return Err.
LexError == [kind |-> "LexError"]
\* peek/next returning Ok(None): the stream is exhausted.
None == [kind |-> "None"]

Dot == Punct(".")
OpenBracket == Punct("[")
CloseBracket == Punct("]")
OpenParen == Punct("(")
CloseParen == Punct(")")
CloseBlock == Punct("}")

Tokens ==
    { Kw("New", FALSE), Kw("New", TRUE), Kw("Super", FALSE), Kw("Super", TRUE),
      Kw("If", FALSE),
      Ident("a"), Bool(TRUE), Bool(FALSE), Null, Num, Priv("p"),
      Dot, OpenBracket, CloseBracket, OpenParen, CloseParen, CloseBlock,
      TemplateNoSubstitution, TemplateMiddle, LexError }

\* Keyword::as_str and Keyword::to_sym: the symbol of the keyword's spelling.
KwToSym(k) ==
    CASE k = "New" -> "new"
      [] k = "Super" -> "super"
      [] k = "If" -> "if"

SymTRUE == "true"
SymFALSE == "false"
SymNULL == "null"

\* Token::to_string, used in diagnostics.
TokenToString(t) ==
    CASE t.kind = "Keyword" -> KwToSym(t.kw)
      [] t.kind = "Identifier" -> t.sym
      [] t.kind = "Punctuator" -> t.p
      [] t.kind = "BooleanLiteral" -> (IF t.value THEN "true" ELSE "false")
      [] t.kind = "NullLiteral" -> "null"
      [] t.kind = "NumericLiteral" -> "1"
      [] t.kind = "PrivateIdentifier" -> "#p"
      [] OTHER -> "template"

-----------------------------------------------------------------------------
\* AST nodes (opaque builders of ast::node).

NoNode == [type |-> "Empty"]
Call(f, a) == [type |-> "Call", expr |-> f, args |-> a]
New(c) == [type |-> "New", call |-> c]
GetConstField(o, f) == [type |-> "GetConstField", obj |-> o, field |-> f]
GetPrivateField(o, f) == [type |-> "GetPrivateField", obj |-> o, field |-> f]
GetField(o, f) == [type |-> "GetField", obj |-> o, field |-> f]
GetSuperFieldConst(f) == [type |-> "GetSuperField", variant |-> "Const", field |-> f]
GetSuperFieldExpr(e) == [type |-> "GetSuperField", variant |-> "Expr", expr |-> e]
TaggedTemplate(t, e) == [type |-> "TaggedTemplate", tag |-> t, exprs |-> e]
\* What the primary-expression / expression parsers build from one operand.
Operand(t) == [type |-> "Operand", token |-> t]

-----------------------------------------------------------------------------
\* Parse errors (parser::ParseError).

AbruptEnd == [kind |-> "AbruptEnd"]
General(m, p) == [kind |-> "General", message |-> m, position |-> p]
Unexpected(f, sp, c) == [kind |-> "Unexpected", found |-> f, span |-> sp, context |-> c]
Expected(e, f, sp, c) ==
    [kind |-> "Expected", expected |-> e, found |-> f, span |-> sp, context |-> c]
LexErr(p) == [kind |-> "Lex", position |-> p]

NoRet == [status |-> "none"]
Ok(v) == [status |-> "ok", value |-> v]
Err(e) == [status |-> "err", error |-> e]

-----------------------------------------------------------------------------
\* The call stack and the cursor.

Top == stack[Len(stack)]

Frame(fn, pc, start, lhs) == [fn |-> fn, pc |-> pc, start |-> start, lhs |-> lhs, acc |-> <<>>]

Running(fn, pc) == stack # <<>> /\ Top.fn = fn /\ Top.pc = pc

\* Continue in the same invocation at statement pc with the frame updated.
Goto(f) == stack' = [stack EXCEPT ![Len(stack)] = f] /\ ret' = NoRet

\* Return r to the caller (or to the user of the parser when the stack empties).
Return(r) == stack' = SubSeq(stack, 1, Len(stack) - 1) /\ ret' = r

\* Invoke a parser: the caller continues at `resume` once it returns.
Invoke(resume, callee) ==
    /\ stack' = [stack EXCEPT ![Len(stack)] = resume] \o <<callee>>
    /\ ret' = NoRet

\* The token the lexer hands out for index i of the input: the buffered one if
\* it has been lexed already, otherwise the input is lexed up to it (any
\* tokens, a lexer error, or the end of the input).
LexAt(i, t) ==
    IF i <= Len(src)
    THEN t = src[i] /\ UNCHANGED <<src, ended>>
    ELSE IF ended
         THEN t = None /\ UNCHANGED <<src, ended>>
         ELSE \E fill \in [1..(i - Len(src) - 1) -> Tokens \ {LexError}] :
                \/ /\ t = None
                   /\ ended' = TRUE
                   /\ \E n \in 0..Len(fill) :
                        /\ Len(src) + n <= MaxLen
                        /\ src' = src \o SubSeq(fill, 1, n)
                \/ /\ t # None
                   /\ Len(src) + Len(fill) < MaxLen
                   /\ src' = src \o fill \o <<t>>
                   /\ ended' = FALSE

\* SkipN looking one token further ahead.
SkipOne == 2 - 1

\* The lookahead index of every peek of the production.
SkipN == 0

\* Cursor::peek(skip_n, interner): does not advance.
CursorPeek(skip_n, t) == LexAt(pos + 1 + skip_n, t) /\ pos' = pos

\* Cursor::next(interner): advances past the token unless there is none.
CursorNext(t) == LexAt(pos + 1, t) /\ pos' = (IF t \in {None, LexError} THEN pos ELSE pos + 1)

\* The log of the cursor operations and delegations performed so far.
CursorOp(o) == [op |-> o, by |-> Top.fn, depth |-> Len(stack), at |-> pos]

PeekOp(n) == [op |-> "peek", by |-> Top.fn, depth |-> Len(stack), at |-> pos, skip_n |-> n]

Delegation(p, at, args) ==
    [op |-> p, by |-> Top.fn, depth |-> Len(stack), at |-> at, args |-> args]

\* The context flags and the identifier hint this parser was constructed with.
Flags == [allow_yield |-> self.allow_yield, allow_await |-> self.allow_await]

\* NamedFlags losing the identifier hint.
NamedFlagsNoHint ==
    [name |-> <<>>, allow_yield |-> self.allow_yield, allow_await |-> self.allow_await]

NamedFlags ==
    [name |-> self.name, allow_yield |-> self.allow_yield, allow_await |-> self.allow_await]

\* ExprFlags with the two context flags exchanged.
ExprFlagsSwapped ==
    [name |-> <<>>, allow_in |-> TRUE,
     allow_yield |-> self.allow_await, allow_await |-> self.allow_yield]

ExprFlags ==
    [name |-> <<>>, allow_in |-> TRUE,
     allow_yield |-> self.allow_yield, allow_await |-> self.allow_await]

Log(entries) == calls' = calls \o entries

\* Option<Sym>
NoName == <<>>
Some(s) == <<s>>

-----------------------------------------------------------------------------
\* Collaborating parsers, on the token alphabet above.

OperandKinds == {"Identifier", "BooleanLiteral", "NullLiteral", "NumericLiteral"}

\* PrimaryExpression::parse on a one-token operand.
PrimaryExpression(name, allow_yield, allow_await, t, at) ==
    CASE t = LexError -> Err(LexErr(at))
      [] t = None -> Err(AbruptEnd)
      [] t.kind \in OperandKinds -> Ok(Operand(t))
      [] OTHER -> Err(Unexpected(TokenToString(t), at, "primary expression"))

\* Expression::parse on a one-token operand.
Expression(name, allow_in, allow_yield, allow_await, t, at) ==
    CASE t = LexError -> Err(LexErr(at))
      [] t = None -> Err(AbruptEnd)
      [] t.kind \in OperandKinds -> Ok(Operand(t))
      [] OTHER -> Err(Unexpected(TokenToString(t), at, "expression"))

\* Cursor::expect(kind, context, interner): consumes the next token and
\* requires it to be `kind`.
Expect(kind, context, t, at) ==
    CASE t = LexError -> Err(LexErr(at))
      [] t = None -> Err(AbruptEnd)
      [] t = kind -> Ok(t)
      [] OTHER -> Err(Expected(<<TokenToString(kind)>>, TokenToString(t), at, context))

-----------------------------------------------------------------------------
\* MemberExpression::new(name, allow_yield, allow_await): the parser the
\* production is run as.  The flags and the hint decide no branch of the
\* production; they are given distinct values so that a delegation passing the
\* wrong one shows.
Selves ==
    { [name |-> Some("f"), allow_yield |-> TRUE, allow_await |-> FALSE] }

Init ==
    /\ src = <<>>
    /\ ended = FALSE
    /\ pos = 0
    /\ self \in Selves
    /\ stack = <<Frame("MemberExpression", "start", 0, NoNode)>>
    /\ ret = NoRet
    /\ used = <<>>
    /\ calls = <<>>

\* Required handing the end of the stream on to the match as if it were a token.
RequiredLax(token, at) ==
    IF token = LexError THEN Err(LexErr(at)) ELSE Ok(token)

\* member.rs:67,91,94,143: `?.ok_or(ParseError::AbruptEnd)?` on a token read at
\* index `at`.
Required(token, at) ==
    CASE token = LexError -> Err(LexErr(at))
      [] token = None -> Err(AbruptEnd)
      [] OTHER -> Ok(token)

\* FirstToken not looking at the escaped-character flag.
FirstTokenLax(token) ==
    CASE token.kind = "Keyword" /\ token.kw = "New" -> "new"
      [] token.kind = "Keyword" /\ token.kw = "Super" -> "super"
      [] OTHER -> "primary"

\* member.rs:68-75,89,132: the arm of the match the first token selects.
FirstToken(token) ==
    CASE token.kind = "Keyword" /\ token.kw \in {"New", "Super"} /\ token.escaped -> "escaped"
      [] token.kind = "Keyword" /\ token.kw = "New" /\ ~token.escaped -> "new"
      [] token.kind = "Keyword" /\ token.kw = "Super" -> "super"
      [] OTHER -> "primary"

\* member.rs:67-75,89,132: peek the first token and select the base case.
Dispatch ==
    /\ Running("MemberExpression", "start")
    /\ \E token \in Tokens \cup {None} :
        /\ CursorPeek(SkipN, token)
        /\ Log(<<PeekOp(SkipN)>>)
        /\ LET r == Required(token, pos + 1) IN
           IF r.status = "err"
           THEN Return(r)
           ELSE LET arm == FirstToken(r.value) IN
                IF arm = "escaped"
                THEN Return(Err(General("keyword must not contain escaped characters",
                                        pos + 1)))
                ELSE Goto([Top EXCEPT !.pc = arm])
    /\ UNCHANGED <<used, self>>

\* member.rs:132-133: the base is a primary expression.
Primary ==
    /\ Running("MemberExpression", "primary")
    /\ \E token \in Tokens \cup {None} :
        /\ CursorNext(token)
        /\ Log(<<Delegation("PrimaryExpression", pos, NamedFlags)>>)
        /\ LET r == PrimaryExpression(self.name, self.allow_yield, self.allow_await,
                                      token, pos + 1) IN
           IF r.status = "ok"
           THEN Goto([Top EXCEPT !.pc = "loop", !.lhs = r.value])
           ELSE Return(r)
    /\ UNCHANGED <<used, self>>

\* NewKeyword refusing to recurse below a fixed nesting depth.
NewKeywordGuarded ==
    /\ Running("MemberExpression", "new")
    /\ \E token \in Tokens :
        /\ CursorNext(token)
        /\ Log(<<CursorOp("next"),
                 Delegation("MemberExpression", pos + 1, NamedFlags)>>)
    /\ IF Len(stack) >= 3
       THEN Return(Err(General("recursion limit exceeded", pos + 1)))
       ELSE Invoke([Top EXCEPT !.pc = "new_callee"],
                   Frame("MemberExpression", "start", pos + 1, NoNode))
    /\ UNCHANGED <<used, self>>

\* member.rs:76-77: consume `new` and parse the callee with this same parser.
NewKeyword ==
    /\ Running("MemberExpression", "new")
    /\ \E token \in Tokens :
        /\ CursorNext(token)
        /\ Log(<<CursorOp("next"),
                 Delegation("MemberExpression", pos + 1, NamedFlags)>>)
    /\ Invoke([Top EXCEPT !.pc = "new_callee"],
              Frame("MemberExpression", "start", pos + 1, NoNode))
    /\ UNCHANGED <<used, self>>

\* NewNode returning the bare callee when no argument list was given.
NewNodeBare(lhs, args) == IF args = <<>> THEN lhs ELSE New(Call(lhs, args))

\* HasArguments looking for the wrong punctuator.
HasArgumentsBracket(next) == next = OpenBracket

\* member.rs:85-87: the node of a `new` expression.
NewNode(lhs, args) == New(Call(lhs, args))

\* member.rs:78-84: whether an argument list follows the callee.
HasArguments(next) == next = OpenParen

\* member.rs:77-84: the callee has returned; look for an argument list.
NewArgs ==
    /\ Running("MemberExpression", "new_callee")
    /\ IF ret.status = "err"
       THEN Return(ret) /\ UNCHANGED <<src, ended, pos, calls>>
       ELSE \E next \in Tokens \cup {None} :
             /\ CursorPeek(SkipN, next)
             /\ CASE next = LexError ->
                       Log(<<PeekOp(SkipN)>>) /\ Return(Err(LexErr(pos + 1)))
                  [] next # LexError /\ HasArguments(next) ->
                       /\ Log(<<PeekOp(SkipN), Delegation("Arguments", pos, Flags)>>)
                       /\ Invoke([Top EXCEPT !.pc = "new_call", !.lhs = ret.value],
                                 Frame("Arguments", "open", pos, NoNode))
                  [] OTHER ->
                       /\ Log(<<PeekOp(SkipN)>>)
                       /\ Goto([Top EXCEPT !.pc = "loop", !.lhs = NewNode(ret.value, <<>>)])
    /\ UNCHANGED <<used, self>>

\* NewCall recovering from a failed argument list with an empty one.
NewCallRecovers ==
    /\ Running("MemberExpression", "new_call")
    /\ IF ret.status = "err"
       THEN Goto([Top EXCEPT !.pc = "loop", !.lhs = NewNode(Top.lhs, <<>>)])
       ELSE Goto([Top EXCEPT !.pc = "loop", !.lhs = NewNode(Top.lhs, ret.value)])
    /\ UNCHANGED <<src, ended, pos, calls, used, self>>

\* member.rs:80-87: the argument list has returned; build the node.
NewCall ==
    /\ Running("MemberExpression", "new_call")
    /\ IF ret.status = "err"
       THEN Return(ret)
       ELSE Goto([Top EXCEPT !.pc = "loop", !.lhs = NewNode(Top.lhs, ret.value)])
    /\ UNCHANGED <<src, ended, pos, calls, used, self>>

\* Arguments::parse: cursor.expect(OpenParen, "arguments").
ArgumentsOpen ==
    /\ Running("Arguments", "open")
    /\ \E token \in Tokens \cup {None} :
        /\ CursorNext(token)
        /\ Log(<<CursorOp("expect")>>)
        /\ LET r == Expect(OpenParen, "arguments", token, pos + 1) IN
           IF r.status = "ok" THEN Goto([Top EXCEPT !.pc = "loop"]) ELSE Return(r)
    /\ UNCHANGED <<used, self>>

\* Arguments::parse: the loop head; a close-parenthesis ends the list, a second
\* argument needs a comma.
ArgumentsLoop ==
    /\ Running("Arguments", "loop")
    /\ \E token \in Tokens \cup {None} :
        /\ LexAt(pos + 1, token)
        /\ CASE token = LexError ->
                  pos' = pos /\ Log(<<PeekOp(SkipN)>>) /\ Return(Err(LexErr(pos + 1)))
             [] token = None ->
                  pos' = pos /\ Log(<<PeekOp(SkipN)>>) /\ Return(Err(AbruptEnd))
             [] token = CloseParen ->
                  pos' = pos + 1 /\ Log(<<PeekOp(SkipN), CursorOp("next")>>)
                  /\ Return(Ok(Top.acc))
             [] token \notin {LexError, None, CloseParen} /\ Top.acc # <<>> ->
                  pos' = pos /\ Log(<<PeekOp(SkipN)>>)
                  /\ Return(Err(Expected(<<",", ")">>, TokenToString(token), pos + 1,
                                         "argument list")))
             [] OTHER ->
                  pos' = pos /\ Log(<<PeekOp(SkipN)>>) /\ Goto([Top EXCEPT !.pc = "expr"])
    /\ UNCHANGED <<used, self>>

\* Arguments::parse: one argument expression.
ArgumentsExpr ==
    /\ Running("Arguments", "expr")
    /\ \E token \in Tokens \cup {None} :
        /\ CursorNext(token)
        /\ Log(<<Delegation("Expression", pos, ExprFlags)>>)
        /\ LET r == Expression(<<>>, TRUE, self.allow_yield, self.allow_await,
                               token, pos + 1) IN
           IF r.status = "ok"
           THEN Goto([Top EXCEPT !.pc = "loop", !.acc = Append(@, r.value)])
           ELSE Return(r)
    /\ UNCHANGED <<used, self>>

\* member.rs:90: consume `super`.
SuperKeyword ==
    /\ Running("MemberExpression", "super")
    /\ \E token \in Tokens :
        /\ CursorNext(token)
        /\ Log(<<CursorOp("next")>>)
    /\ Goto([Top EXCEPT !.pc = "super_property"])
    /\ UNCHANGED <<used, self>>

\* SuperArm taking whatever is not a dot for the computed form.
SuperArmLax(token) ==
    CASE token = Dot -> "super_dot"
      [] OTHER -> "super_bracket"

\* member.rs:92-93,117,123-129: the arm the token after `super` selects.
SuperArm(token) ==
    CASE token = Dot -> "super_dot"
      [] token = OpenBracket -> "super_bracket"
      [] OTHER -> "unexpected"

\* member.rs:91-93,117,123-129: the token after `super`.
SuperProperty ==
    /\ Running("MemberExpression", "super_property")
    /\ \E token \in Tokens \cup {None} :
        /\ CursorNext(token)
        /\ Log(<<CursorOp("next")>>)
        /\ LET r == Required(token, pos + 1) IN
           IF r.status = "err"
           THEN Return(r)
           ELSE IF SuperArm(r.value) = "unexpected"
                THEN Return(Err(Unexpected(TokenToString(r.value), pos + 1,
                                           "expected super property")))
                ELSE Goto([Top EXCEPT !.pc = SuperArm(r.value)])
    /\ UNCHANGED <<used, self>>

\* SuperField accepting a private identifier like any other key.
SuperFieldPrivate(token, at) ==
    IF token.kind \in {"Identifier", "PrivateIdentifier"}
    THEN Ok(GetSuperFieldConst(token.sym))
    ELSE IF token.kind = "Keyword"
         THEN Ok(GetSuperFieldConst(KwToSym(token.kw)))
         ELSE IF token.kind = "BooleanLiteral"
              THEN Ok(GetSuperFieldConst(IF token.value THEN SymTRUE ELSE SymFALSE))
              ELSE IF token.kind = "NullLiteral"
                   THEN Ok(GetSuperFieldConst(SymNULL))
                   ELSE Err(Unexpected(TokenToString(token), at, "expected super property"))

\* member.rs:95-114: the property key after `super` `.`.
SuperField(token, at) ==
    CASE token.kind = "Identifier" -> Ok(GetSuperFieldConst(token.sym))
      [] token.kind = "Keyword" -> Ok(GetSuperFieldConst(KwToSym(token.kw)))
      [] token.kind = "BooleanLiteral" /\ token.value -> Ok(GetSuperFieldConst(SymTRUE))
      [] token.kind = "BooleanLiteral" /\ ~token.value -> Ok(GetSuperFieldConst(SymFALSE))
      [] token.kind = "NullLiteral" -> Ok(GetSuperFieldConst(SymNULL))
      [] token.kind = "PrivateIdentifier" ->
            Err(General("unexpected private identifier", at))
      [] OTHER -> Err(Unexpected(TokenToString(token), at, "expected super property"))

\* member.rs:94-115: `super` `.` key.
SuperDot ==
    /\ Running("MemberExpression", "super_dot")
    /\ \E token \in Tokens \cup {None} :
        /\ CursorNext(token)
        /\ Log(<<CursorOp("next")>>)
        /\ LET r == Required(token, pos + 1) IN
           IF r.status = "err"
           THEN Return(r)
           ELSE LET field == SuperField(r.value, pos + 1) IN
                IF field.status = "ok"
                THEN Goto([Top EXCEPT !.pc = "loop", !.lhs = field.value])
                ELSE Return(field)
    /\ UNCHANGED <<used, self>>

\* member.rs:118-119: `super` `[`: the computed key.
SuperBracket ==
    /\ Running("MemberExpression", "super_bracket")
    /\ \E token \in Tokens \cup {None} :
        /\ CursorNext(token)
        /\ Log(<<Delegation("Expression", pos, ExprFlags)>>)
        /\ LET expr == Expression(<<>>, TRUE, self.allow_yield, self.allow_await,
                                  token, pos + 1) IN
           IF expr.status = "ok"
           THEN Goto([Top EXCEPT !.pc = "super_close", !.lhs = expr.value])
           ELSE Return(expr)
    /\ UNCHANGED <<used, self>>

\* SuperClose building the node whatever token follows the computed key.
SuperCloseLenient ==
    /\ Running("MemberExpression", "super_close")
    /\ \E token \in Tokens \cup {None} :
        /\ CursorNext(token)
        /\ Log(<<CursorOp("expect")>>)
        /\ Goto([Top EXCEPT !.pc = "loop", !.lhs = GetSuperFieldExpr(Top.lhs)])
    /\ UNCHANGED <<used, self>>

\* member.rs:120-121: require the close-bracket, then build the node.
SuperClose ==
    /\ Running("MemberExpression", "super_close")
    /\ \E token \in Tokens \cup {None} :
        /\ CursorNext(token)
        /\ Log(<<CursorOp("expect")>>)
        /\ LET r == Expect(CloseBracket, "super property", token, pos + 1) IN
           IF r.status = "ok"
           THEN Goto([Top EXCEPT !.pc = "loop", !.lhs = GetSuperFieldExpr(Top.lhs)])
           ELSE Return(r)
    /\ UNCHANGED <<used, self>>

\* A suffix loop that has no arm for templates.
LoopArmNoTemplate(tok) ==
    CASE tok = Dot -> "dot"
      [] tok = OpenBracket -> "bracket"
      [] OTHER -> "break"

\* member.rs:137-138,173,182,191: the arm of the suffix loop a token selects.
LoopArm(tok) ==
    CASE tok = Dot -> "dot"
      [] tok = OpenBracket -> "bracket"
      [] tok.kind \in {"TemplateNoSubstitution", "TemplateMiddle"} -> "template"
      [] OTHER -> "break"

\* member.rs:136-138,173,182-191,195: the head of the suffix loop.
LoopPeek ==
    /\ Running("MemberExpression", "loop")
    /\ \E tok \in Tokens \cup {None} :
        /\ CursorPeek(SkipN, tok)
        /\ CASE tok = LexError -> Log(<<PeekOp(SkipN)>>) /\ Return(Err(LexErr(pos + 1)))
             [] tok = None -> Log(<<PeekOp(SkipN)>>) /\ Return(Ok(Top.lhs))
             [] tok \notin {LexError, None} /\ LoopArm(tok) = "break" ->
                  Log(<<PeekOp(SkipN)>>) /\ Return(Ok(Top.lhs))
             [] tok \notin {LexError, None} /\ LoopArm(tok) = "template" ->
                  /\ Log(<<PeekOp(SkipN),
                           Delegation("TaggedTemplateLiteral", pos,
                                      [allow_yield |-> self.allow_yield,
                                       allow_await |-> self.allow_await,
                                       start |-> pos + 1, tag |-> Top.lhs])>>)
                  /\ Invoke([Top EXCEPT !.pc = "tagged"],
                            Frame("TaggedTemplateLiteral", "next", pos + 1, Top.lhs))
             [] OTHER -> Log(<<PeekOp(SkipN)>>) /\ Goto([Top EXCEPT !.pc = LoopArm(tok)])
    /\ UNCHANGED <<used, self>>

\* DotNext going around the loop again without reading the dot.
DotNextStuck ==
    /\ Running("MemberExpression", "dot")
    /\ Goto([Top EXCEPT !.pc = "loop"])
    /\ UNCHANGED <<src, ended, pos, calls, used, self>>

\* member.rs:139-141: consume the dot.
DotNext ==
    /\ Running("MemberExpression", "dot")
    /\ \E token \in Tokens :
        /\ CursorNext(token)
        /\ Log(<<CursorOp("next")>>)
    /\ Goto([Top EXCEPT !.pc = "dot_key"])
    /\ UNCHANGED <<used, self>>

\* The node a chain of suffixes was started from.
RECURSIVE ChainBase(_)
ChainBase(node) ==
    CASE node.type \in {"GetConstField", "GetPrivateField", "GetField"} -> ChainBase(node.obj)
      [] node.type = "TaggedTemplate" -> ChainBase(node.tag)
      [] OTHER -> node

\* DotField building each access on the base instead of the accumulated node.
DotFieldOnBase(lhs, token, at, recorded) ==
    CASE token.kind = "Identifier" -> Ok(GetConstField(ChainBase(lhs), token.sym))
      [] token.kind = "Keyword" -> Ok(GetConstField(ChainBase(lhs), KwToSym(token.kw)))
      [] token.kind = "BooleanLiteral" /\ token.value -> Ok(GetConstField(ChainBase(lhs), SymTRUE))
      [] token.kind = "BooleanLiteral" /\ ~token.value ->
            Ok(GetConstField(ChainBase(lhs), SymFALSE))
      [] token.kind = "NullLiteral" -> Ok(GetConstField(ChainBase(lhs), SymNULL))
      [] token.kind = "PrivateIdentifier" ->
            IF recorded.status = "ok"
            THEN Ok(GetPrivateField(ChainBase(lhs), token.sym))
            ELSE recorded
      [] OTHER -> Err(Expected(<<"identifier">>, TokenToString(token), at,
                               "member expression"))

\* DotField refusing reserved words as property names.
DotFieldNoKeyword(lhs, token, at, recorded) ==
    CASE token.kind = "Identifier" -> Ok(GetConstField(lhs, token.sym))
      [] token.kind = "BooleanLiteral" /\ token.value -> Ok(GetConstField(lhs, SymTRUE))
      [] token.kind = "BooleanLiteral" /\ ~token.value -> Ok(GetConstField(lhs, SymFALSE))
      [] token.kind = "NullLiteral" -> Ok(GetConstField(lhs, SymNULL))
      [] token.kind = "PrivateIdentifier" ->
            IF recorded.status = "ok" THEN Ok(GetPrivateField(lhs, token.sym)) ELSE recorded
      [] OTHER -> Err(Expected(<<"identifier">>, TokenToString(token), at,
                               "member expression"))

\* member.rs:145-171: the node a property key after a dot builds.  `recorded`
\* is the outcome of Cursor::push_used_private_identifier for a private key.
DotField(lhs, token, at, recorded) ==
    CASE token.kind = "Identifier" -> Ok(GetConstField(lhs, token.sym))
      [] token.kind = "Keyword" -> Ok(GetConstField(lhs, KwToSym(token.kw)))
      [] token.kind = "BooleanLiteral" /\ token.value -> Ok(GetConstField(lhs, SymTRUE))
      [] token.kind = "BooleanLiteral" /\ ~token.value -> Ok(GetConstField(lhs, SymFALSE))
      [] token.kind = "NullLiteral" -> Ok(GetConstField(lhs, SymNULL))
      [] token.kind = "PrivateIdentifier" ->
            IF recorded.status = "ok" THEN Ok(GetPrivateField(lhs, token.sym)) ELSE recorded
      [] OTHER -> Err(Expected(<<"identifier">>, TokenToString(token), at,
                               "member expression"))

\* Cursor::push_used_private_identifier(name, position): fails outside a class
\* body (in_class is whether a private environment is open).
PushUsedPrivateIdentifier(name, position, in_class) ==
    IF in_class
    THEN Ok([name |-> name, position |-> position])
    ELSE Err(General("private identifier must be declared in an enclosing class",
                     position))

\* UsedBy forgetting to record the private name.
UsedByNothing(token, at, recorded) == <<>>

\* member.rs:160: the private names this token makes the cursor record.
UsedBy(token, at, recorded) ==
    IF token.kind = "PrivateIdentifier" /\ recorded.status = "ok"
    THEN <<recorded.value>>
    ELSE <<>>

\* member.rs:143-171: the property key after a dot.
DotKey ==
    /\ Running("MemberExpression", "dot_key")
    /\ \E token \in Tokens \cup {None} :
        /\ CursorNext(token)
        /\ LET r == Required(token, pos + 1) IN
           IF r.status = "err"
           THEN /\ Log(<<CursorOp("next")>>)
                /\ used' = used
                /\ Return(r)
           ELSE \E in_class \in (IF r.value.kind = "PrivateIdentifier"
                                 THEN BOOLEAN ELSE {TRUE}) :
                  LET recorded == PushUsedPrivateIdentifier(r.value.sym, pos + 1, in_class)
                      node == DotField(Top.lhs, r.value, pos + 1, recorded)
                  IN  /\ Log(IF r.value.kind = "PrivateIdentifier"
                             THEN <<CursorOp("next"),
                                    CursorOp("push_used_private_identifier")>>
                             ELSE <<CursorOp("next")>>)
                      /\ used' = used \o UsedBy(r.value, pos + 1, recorded)
                      /\ IF node.status = "ok"
                         THEN Goto([Top EXCEPT !.pc = "loop", !.lhs = node.value])
                         ELSE Return(node)
    /\ UNCHANGED self

\* member.rs:174-176: consume the open bracket.
BracketNext ==
    /\ Running("MemberExpression", "bracket")
    /\ \E token \in Tokens :
        /\ CursorNext(token)
        /\ Log(<<CursorOp("next")>>)
    /\ Goto([Top EXCEPT !.pc = "bracket_expr"])
    /\ UNCHANGED <<used, self>>

\* member.rs:177-178: the computed key.
BracketExpr ==
    /\ Running("MemberExpression", "bracket_expr")
    /\ \E token \in Tokens \cup {None} :
        /\ CursorNext(token)
        /\ Log(<<Delegation("Expression", pos, ExprFlags)>>)
        /\ LET idx == Expression(<<>>, TRUE, self.allow_yield, self.allow_await,
                                 token, pos + 1) IN
           IF idx.status = "ok"
           THEN Goto([Top EXCEPT !.pc = "bracket_close", !.acc = <<idx.value>>])
           ELSE Return(idx)
    /\ UNCHANGED <<used, self>>

\* member.rs:179-180: require the close-bracket, then wrap lhs.
BracketClose ==
    /\ Running("MemberExpression", "bracket_close")
    /\ \E token \in Tokens \cup {None} :
        /\ CursorNext(token)
        /\ Log(<<CursorOp("expect")>>)
        /\ LET r == Expect(CloseBracket, "member expression", token, pos + 1) IN
           IF r.status = "ok"
           THEN Goto([Top EXCEPT !.pc = "loop", !.lhs = GetField(Top.lhs, Top.acc[1]),
                                 !.acc = <<>>])
           ELSE Return(r)
    /\ UNCHANGED <<used, self>>

\* member.rs:183-189: the tagged-template parser has returned.
Tagged ==
    /\ Running("MemberExpression", "tagged")
    /\ IF ret.status = "err"
       THEN Return(ret)
       ELSE Goto([Top EXCEPT !.pc = "loop", !.lhs = ret.value])
    /\ UNCHANGED <<src, ended, pos, calls, used, self>>

\* TaggedTemplateLiteral::parse: what a template piece makes the parser do.
TemplatePiece(token) ==
    CASE token.kind = "TemplateMiddle" -> "expr"
      [] token.kind = "TemplateNoSubstitution" -> "done"
      [] OTHER -> "error"

\* TaggedTemplateLiteral::parse: read a piece of the template; `first` is
\* cursor.next for the first piece, cursor.lex_template for the following ones.
TaggedRead(first) ==
    \E token \in Tokens \cup {None} :
        /\ CursorNext(token)
        /\ Log(<<CursorOp(IF first THEN "next" ELSE "lex_template")>>)
        /\ CASE token = LexError -> Return(Err(LexErr(pos + 1)))
             [] token = None -> Return(Err(IF first THEN AbruptEnd ELSE LexErr(pos + 1)))
             [] OTHER ->
                 LET piece == TemplatePiece(token) IN
                 CASE piece = "expr" -> Goto([Top EXCEPT !.pc = "expr"])
                   [] piece = "done" -> Return(Ok(TaggedTemplate(Top.lhs, Top.acc)))
                   [] OTHER ->
                        Return(Err(General("cannot parse tagged template literal",
                                           Top.start)))

\* TaggedTemplateLiteral::parse: the first piece.
TaggedNext ==
    /\ Running("TaggedTemplateLiteral", "next")
    /\ TaggedRead(TRUE)
    /\ UNCHANGED <<used, self>>

\* TaggedTemplateLiteral::parse: a substitution expression.
TaggedExpr ==
    /\ Running("TaggedTemplateLiteral", "expr")
    /\ \E token \in Tokens \cup {None} :
        /\ CursorNext(token)
        /\ Log(<<Delegation("Expression", pos, ExprFlags)>>)
        /\ LET r == Expression(<<>>, TRUE, self.allow_yield, self.allow_await,
                               token, pos + 1) IN
           IF r.status = "ok"
           THEN Goto([Top EXCEPT !.pc = "close", !.acc = Append(@, r.value)])
           ELSE Return(r)
    /\ UNCHANGED <<used, self>>

\* TaggedTemplateLiteral::parse: the close-block ending a substitution.
TaggedClose ==
    /\ Running("TaggedTemplateLiteral", "close")
    /\ \E token \in Tokens \cup {None} :
        /\ CursorNext(token)
        /\ Log(<<CursorOp("expect")>>)
        /\ LET r == Expect(CloseBlock, "template literal", token, pos + 1) IN
           IF r.status = "ok" THEN Goto([Top EXCEPT !.pc = "lex"]) ELSE Return(r)
    /\ UNCHANGED <<used, self>>

\* TaggedTemplateLiteral::parse: the piece after a substitution.
TaggedLex ==
    /\ Running("TaggedTemplateLiteral", "lex")
    /\ TaggedRead(FALSE)
    /\ UNCHANGED <<used, self>>

-----------------------------------------------------------------------------
Next ==
    \/ Dispatch
    \/ Primary
    \/ NewKeyword
    \/ NewArgs
    \/ NewCall
    \/ ArgumentsOpen
    \/ ArgumentsLoop
    \/ ArgumentsExpr
    \/ SuperKeyword
    \/ SuperProperty
    \/ SuperDot
    \/ SuperBracket
    \/ SuperClose
    \/ LoopPeek
    \/ DotNext
    \/ DotKey
    \/ BracketNext
    \/ BracketExpr
    \/ BracketClose
    \/ Tagged
    \/ TaggedNext
    \/ TaggedExpr
    \/ TaggedClose
    \/ TaggedLex

Spec == Init /\ [][Next]_vars

\* The top-level invocation has returned.
Done == stack = <<>>

\* The parser runs on its caller's thread and nothing suspends it: every call
\* to the cursor and to a delegated parser returns, so a step that can be taken
\* is taken.
FairSpec == Spec /\ WF_vars(Next)

-----------------------------------------------------------------------------
\* Helpers of the properties.

MemberFrames == {d \in 1..Len(stack) : stack[d].fn = "MemberExpression"}

\* The top-level invocation returned a node.
Parsed == Done /\ ret.status = "ok"

\* The top-level invocation returned an error.
Failed == Done /\ ret.status = "err"

IsKeyToken(t) == t.kind \in {"Identifier", "Keyword", "BooleanLiteral", "NullLiteral"}

\* The symbol a property-key token stands for.
KeyOf(t) ==
    CASE t.kind = "Identifier" -> t.sym
      [] t.kind = "Keyword" -> (IF t.kw = "New" THEN "new"
                                ELSE IF t.kw = "Super" THEN "super" ELSE "if")
      [] t.kind = "BooleanLiteral" -> (IF t.value THEN "true" ELSE "false")
      [] t.kind = "NullLiteral" -> "null"
      [] OTHER -> t.sym

IsTemplate(t) == t.kind \in {"TemplateNoSubstitution", "TemplateMiddle"}

\* The substitution expressions of the template starting at token i, and the
\* index of its last token: TemplateMiddle expr } ... TemplateNoSubstitution.
RECURSIVE TemplateAt(_, _)
TemplateAt(i, exprs) ==
    IF src[i].kind = "TemplateNoSubstitution"
    THEN [exprs |-> exprs, last |-> i]
    ELSE TemplateAt(i + 3, Append(exprs, Operand(src[i + 1])))

\* The suffixes in src[i..pos] applied, left to right, to node:
\* sn(...s2(s1(node))...).
RECURSIVE Chain(_, _)
Chain(node, i) ==
    IF i > pos
    THEN node
    ELSE CASE src[i] = Dot /\ src[i + 1].kind = "PrivateIdentifier" ->
                 Chain([type |-> "GetPrivateField", obj |-> node, field |-> src[i + 1].sym],
                       i + 2)
           [] src[i] = Dot /\ src[i + 1].kind # "PrivateIdentifier" ->
                 Chain([type |-> "GetConstField", obj |-> node, field |-> KeyOf(src[i + 1])],
                       i + 2)
           [] src[i] = OpenBracket ->
                 Chain([type |-> "GetField", obj |-> node, field |-> Operand(src[i + 1])],
                       i + 3)
           [] OTHER ->
                 LET t == TemplateAt(i, <<>>) IN
                 Chain([type |-> "TaggedTemplate", tag |-> node, exprs |-> t.exprs],
                       t.last + 1)

\* The pcs of an invocation that is in its suffix loop.
LoopPcs == {"loop", "dot", "dot_key", "bracket", "bracket_expr", "bracket_close", "tagged"}

\* The number of tokens of the base starting after token `start`, when the
\* tokens alone tell (a primary operand or a `super` property), else 0.
BaseLen(start) ==
    LET t == src[start + 1] IN
    CASE t.kind \in OperandKinds -> 1
      [] t = Kw("Super", FALSE) -> (IF src[start + 2] = Dot THEN 3 ELSE 4)
      [] OTHER -> 0

BaseNode(start) ==
    LET t == src[start + 1] IN
    IF t.kind \in OperandKinds
    THEN Operand(t)
    ELSE IF src[start + 2] = Dot
         THEN [type |-> "GetSuperField", variant |-> "Const", field |-> KeyOf(src[start + 3])]
         ELSE [type |-> "GetSuperField", variant |-> "Expr", expr |-> Operand(src[start + 3])]

\* One step of an invocation in its suffix loop leaves lhs alone or wraps it.
Wraps(old, new) ==
    \/ new = old
    \/ new.type \in {"GetConstField", "GetPrivateField", "GetField"} /\ new.obj = old
    \/ new.type = "TaggedTemplate" /\ new.tag = old

-----------------------------------------------------------------------------
\* C1: suffix chains are left-associative over every base case.  At the head
\* of its suffix loop an invocation whose base is a primary operand or a
\* `super` property holds sn(...s2(s1(B))...) for the suffixes s1..sn read so
\* far; at every nesting level and for every base (a `new` expression
\* included) a step of the suffix loop either keeps the accumulated node or
\* wraps it as the object/tag of the new one; and the node returned is the
\* accumulated one.
C1_LeftAssociative ==
    /\ [](\A d \in MemberFrames :
            (stack[d].pc = "loop" /\ BaseLen(stack[d].start) > 0)
                => stack[d].lhs = Chain(BaseNode(stack[d].start),
                                        stack[d].start + BaseLen(stack[d].start) + 1))
    /\ [][\A d \in MemberFrames :
            (stack[d].pc \in LoopPcs)
                => IF d <= Len(stack')
                   THEN /\ stack'[d].fn = "MemberExpression"
                        /\ stack'[d].pc \in LoopPcs
                        /\ Wraps(stack[d].lhs, stack'[d].lhs)
                   ELSE d = Len(stack) /\ (ret'.status = "ok" => ret'.value = stack[d].lhs)
       ]_vars

\* `a[a].a` (or the like) has been parsed: a chain of two suffixes.
C1_Witness ==
    /\ Parsed
    /\ ret.value.type = "GetConstField"
    /\ ret.value.obj.type = "GetField"
    /\ ret.value.obj.obj.type = "Operand"

-----------------------------------------------------------------------------
\* The token at index i of the input, None past what has been lexed.
Tok(i) == IF i >= 1 /\ i <= Len(src) THEN src[i] ELSE None

\* The same in the successor state of a step.
TokAfter(i) == IF i >= 1 /\ i <= Len(src') THEN src'[i] ELSE None

\* C2: for an unescaped `new`, once the callee C has been parsed the base is
\* New(Call(C, args)): the argument-list parser is invoked exactly when the
\* token peeked at the cursor is an open-parenthesis, and its result becomes
\* args; for any other token or at the end of the stream args is empty and the
\* cursor does not move.  The base of a `new` expression is never a bare
\* reference or a raw Call.
C2_NewCall ==
    /\ [](\A d \in MemberFrames :
            (Tok(stack[d].start + 1) = Kw("New", FALSE) /\ stack[d].pc \in LoopPcs)
                => /\ ChainBase(stack[d].lhs).type = "New"
                   /\ ChainBase(stack[d].lhs).call.type = "Call")
    /\ [][/\ (Running("MemberExpression", "new_callee") /\ ret.status = "ok")
               => /\ pos' = pos
                  /\ CASE TokAfter(pos + 1) = OpenParen ->
                            /\ Len(stack') = Len(stack) + 1
                            /\ stack'[Len(stack')].fn = "Arguments"
                            /\ stack'[Len(stack)].lhs = ret.value
                            /\ stack'[Len(stack)].pc = "new_call"
                       [] TokAfter(pos + 1) = LexError -> ret'.status = "err"
                       [] OTHER ->
                            /\ Len(stack') = Len(stack)
                            /\ stack'[Len(stack)].pc = "loop"
                            /\ stack'[Len(stack)].lhs =
                                 [type |-> "New",
                                  call |-> [type |-> "Call", expr |-> ret.value,
                                            args |-> <<>>]]
          /\ (Running("MemberExpression", "new_call") /\ ret.status = "ok")
               => /\ pos' = pos
                  /\ Len(stack') = Len(stack)
                  /\ stack'[Len(stack)].pc = "loop"
                  /\ stack'[Len(stack)].lhs =
                       [type |-> "New",
                        call |-> [type |-> "Call", expr |-> stack[Len(stack)].lhs,
                                  args |-> ret.value]]
       ]_vars

\* `new a]` has been parsed: no argument list, the `]` is not consumed.
C2_Witness ==
    /\ Parsed
    /\ src = <<Kw("New", FALSE), Ident("a"), CloseBracket>>
    /\ ret.value = [type |-> "New",
                    call |-> [type |-> "Call", expr |-> Operand(Ident("a")), args |-> <<>>]]
    /\ pos = 2

\* The number of `new` keywords the input starts with.
RECURSIVE LeadingNews(_)
LeadingNews(i) == IF Tok(i) = Kw("New", FALSE) THEN 1 + LeadingNews(i + 1) ELSE 0

\* The argument list starting at token i: its arguments and its length in
\* tokens (0 when no complete argument list starts there).
ArgListAt(i) ==
    CASE Tok(i) = OpenParen /\ Tok(i + 1) = CloseParen -> [args |-> <<>>, len |-> 2]
      [] Tok(i) = OpenParen /\ Tok(i + 1).kind \in OperandKinds /\ Tok(i + 2) = CloseParen ->
            [args |-> <<Operand(Tok(i + 1))>>, len |-> 3]
      [] OTHER -> [args |-> <<>>, len |-> 0]

\* The first (at most n) consecutive argument lists starting at token i.
RECURSIVE ArgLists(_, _)
ArgLists(i, n) ==
    IF n = 0 \/ ArgListAt(i).len = 0
    THEN <<>>
    ELSE <<ArgListAt(i)>> \o ArgLists(i + ArgListAt(i).len, n - 1)

RECURSIVE SumLen(_)
SumLen(lists) == IF lists = <<>> THEN 0 ELSE Head(lists).len + SumLen(Tail(lists))

\* j nested `new`s around callee, the innermost ones taking the lists in order.
RECURSIVE Nest(_, _, _)
Nest(j, callee, lists) ==
    IF j = 0
    THEN callee
    ELSE [type |-> "New",
          call |-> [type |-> "Call", expr |-> Nest(j - 1, callee, lists),
                    args |-> IF j <= Len(lists) THEN lists[j].args ELSE <<>>]]

\* C3: for k >= 1 `new` keywords, an operand callee and m consecutive
\* parenthesised argument lists followed by no member suffix, the parse yields k
\* nested New(Call(..)) nodes, the innermost min(k, m) taking the argument
\* lists in source order and the outer ones empty arguments, and the cursor
\* stops right after the min(k, m)-th list: an open-parenthesis is left
\* unconsumed only when it is the (k+1)-th, every `new` having its list.
C3_NestedNew ==
    LET k == LeadingNews(1)
        lists == ArgLists(k + 2, k)
        end == k + 1 + SumLen(lists)
    IN  (/\ Parsed
         /\ k >= 1
         /\ Tok(k + 1).kind \in OperandKinds
         /\ LoopArm(Tok(end + 1)) = "break")
            => /\ ret.value = Nest(k, Operand(Tok(k + 1)), lists)
               /\ pos = end
               /\ Tok(end + 1) = OpenParen => Len(lists) = k

\* `new new a()()` has been parsed: each `new` took one argument list.
C3_Witness ==
    /\ Parsed
    /\ src = <<Kw("New", FALSE), Kw("New", FALSE), Ident("a"),
               OpenParen, CloseParen, OpenParen, CloseParen>>
    /\ ret.value = [type |-> "New",
                    call |-> [type |-> "Call",
                              expr |-> [type |-> "New",
                                        call |-> [type |-> "Call",
                                                  expr |-> Operand(Ident("a")),
                                                  args |-> <<>>]],
                              args |-> <<>>]]
    /\ pos = 7

\* `new a()(`: the second open-parenthesis is left for the caller.
C3_WitnessUnconsumed ==
    /\ Parsed
    /\ src = <<Kw("New", FALSE), Ident("a"), OpenParen, CloseParen, OpenParen>>
    /\ pos = 4

-----------------------------------------------------------------------------
\* C4: for an unescaped `super`, `super` `.` key yields GetSuperField with the
\* symbol of the key, `super` `[` expr `]` yields GetSuperField with the
\* computed expression, and that node exists only once the close-bracket has
\* been consumed; when the token after the expression is not a close-bracket
\* the invocation returns an error and no node.
C4_SuperProperty ==
    /\ [](\A d \in MemberFrames :
            (Tok(stack[d].start + 1) = Kw("Super", FALSE) /\ stack[d].pc \in LoopPcs)
                => LET b == stack[d].start
                       base == ChainBase(stack[d].lhs)
                   IN  IF Tok(b + 2) = Dot
                       THEN base = [type |-> "GetSuperField", variant |-> "Const",
                                    field |-> KeyOf(Tok(b + 3))]
                       ELSE /\ Tok(b + 2) = OpenBracket
                            /\ base = [type |-> "GetSuperField", variant |-> "Expr",
                                       expr |-> Operand(Tok(b + 3))]
                            /\ Tok(b + 4) = CloseBracket
                            /\ pos >= b + 4)
    /\ [][(Running("MemberExpression", "super_close") /\ TokAfter(pos + 1) # CloseBracket)
            => /\ ret'.status = "err"
               /\ Len(stack') = Len(stack) - 1
       ]_vars

\* `super[a]` has been parsed.
C4_Witness ==
    /\ Parsed
    /\ src = <<Kw("Super", FALSE), OpenBracket, Ident("a"), CloseBracket>>
    /\ ret.value = [type |-> "GetSuperField", variant |-> "Expr",
                    expr |-> Operand(Ident("a"))]
    /\ pos = 4

\* C5: a private identifier directly after `super` `.` fails the invocation
\* with the general error "unexpected private identifier" at that token's
\* start; no node is built and no private-name usage is recorded.
C5_SuperPrivate ==
    [][(Running("MemberExpression", "super_dot")
            /\ TokAfter(pos + 1).kind = "PrivateIdentifier")
         => /\ ret' = [status |-> "err",
                       error |-> [kind |-> "General",
                                  message |-> "unexpected private identifier",
                                  position |-> pos + 1]]
            /\ Len(stack') = Len(stack) - 1
            /\ used' = used
            /\ \A i \in (Len(calls) + 1)..Len(calls') :
                    calls'[i].op # "push_used_private_identifier"
    ]_vars

\* `super.#p` has failed.
C5_Witness ==
    /\ Failed
    /\ src = <<Kw("Super", FALSE), Dot, Priv("p")>>
    /\ ret.error.kind = "General"
    /\ ret.error.message = "unexpected private identifier"
    /\ ret.error.position = 3
    /\ used = <<>>

\* The private keys of the GetPrivateField nodes of a tree built by this
\* production, in source order.
RECURSIVE PrivateKeys(_)
PrivateKeys(node) ==
    CASE node.type = "GetPrivateField" -> Append(PrivateKeys(node.obj), node.field)
      [] node.type \in {"GetConstField", "GetField"} -> PrivateKeys(node.obj)
      [] node.type = "TaggedTemplate" -> PrivateKeys(node.tag)
      [] node.type = "New" -> PrivateKeys(node.call.expr)
      [] OTHER -> <<>>

\* C6: private-name usage recording matches the tree.  A private identifier
\* after a suffix dot is recorded exactly once, with its start position, in
\* the step that builds its GetPrivateField node, or the recording fails and
\* the invocation returns that error without building the node; no other step
\* records anything.  On every successful parse the recorded names are the
\* private keys of the tree in source order, recorded at the positions of the
\* private-identifier tokens consumed.
C6_PrivateUsage ==
    /\ [](Parsed =>
            /\ [i \in 1..Len(used) |-> used[i].name] = PrivateKeys(ret.value)
            /\ \A i \in 1..Len(used) :
                 /\ Tok(used[i].position) = Priv(used[i].name)
                 /\ Tok(used[i].position - 1) = Dot
                 /\ i > 1 => used[i - 1].position < used[i].position
            /\ \A j \in 1..pos :
                 Tok(j).kind = "PrivateIdentifier"
                    => \E i \in 1..Len(used) : used[i].position = j)
    /\ [][IF Running("MemberExpression", "dot_key")
             /\ TokAfter(pos + 1).kind = "PrivateIdentifier"
          THEN \/ /\ used' = Append(used, [name |-> TokAfter(pos + 1).sym,
                                          position |-> pos + 1])
                  /\ Len(stack') = Len(stack)
                  /\ stack'[Len(stack)].lhs =
                        [type |-> "GetPrivateField", obj |-> stack[Len(stack)].lhs,
                         field |-> TokAfter(pos + 1).sym]
               \/ /\ used' = used
                  /\ ret'.status = "err"
                  /\ Len(stack') = Len(stack) - 1
          ELSE used' = used
       ]_vars

\* `a.#p.#p` has been parsed and both usages are recorded.
C6_Witness ==
    /\ Parsed
    /\ src = <<Ident("a"), Dot, Priv("p"), Dot, Priv("p")>>
    /\ used = <<[name |-> "p", position |-> 3], [name |-> "p", position |-> 5]>>
    /\ ret.value.type = "GetPrivateField"

\* C7: when an invocation of the production, at any `new`-nesting level,
\* peeks `new` or `super` with the escaped-character flag as its first token,
\* it returns the general error "keyword must not contain escaped characters"
\* at that token's start, having only peeked: the token is not consumed and no
\* parser is invoked.
C7_EscapedKeyword ==
    [][(Running("MemberExpression", "start")
            /\ TokAfter(pos + 1) \in {Kw("New", TRUE), Kw("Super", TRUE)})
         => /\ ret' = [status |-> "err",
                       error |-> [kind |-> "General",
                                  message |-> "keyword must not contain escaped characters",
                                  position |-> pos + 1]]
            /\ pos' = pos
            /\ Len(stack') = Len(stack) - 1
            /\ Len(calls') = Len(calls) + 1
            /\ calls'[Len(calls')].op = "peek"
    ]_vars

\* `new` followed by an escaped `super` has failed at the second token.
C7_Witness ==
    /\ Failed
    /\ src = <<Kw("New", FALSE), Kw("Super", TRUE)>>
    /\ ret.error.kind = "General"
    /\ ret.error.position = 2
    /\ pos = 1

-----------------------------------------------------------------------------
\* The read at the cursor in this step finds the stream exhausted.
EndOfStream == ended' /\ pos + 1 > Len(src')

\* C8: where the production requires a token (the first token of an
\* invocation, so on empty input and after `new`; the token after `super`; the
\* key after `super` `.`; the key after a suffix dot) an exhausted stream makes
\* the invocation return AbruptEnd.  Where a token is optional (the head of
\* the suffix loop, the argument list after a `new` callee) an exhausted stream
\* is no error: the accumulated node is returned, the `new` node is built.
C8_AbruptEnd ==
    [][EndOfStream =>
        /\ (stack # <<>> /\ Top.fn = "MemberExpression"
                /\ Top.pc \in {"start", "super_property", "super_dot", "dot_key"})
             => /\ ret' = [status |-> "err", error |-> [kind |-> "AbruptEnd"]]
                /\ Len(stack') = Len(stack) - 1
        /\ Running("MemberExpression", "loop")
             => /\ ret' = [status |-> "ok", value |-> stack[Len(stack)].lhs]
                /\ Len(stack') = Len(stack) - 1
        /\ (Running("MemberExpression", "new_callee") /\ ret.status = "ok")
             => /\ ret'.status # "err"
                /\ Len(stack') = Len(stack)
                /\ stack'[Len(stack)].lhs.type = "New"
                /\ stack'[Len(stack)].lhs.call.args = <<>>
    ]_vars

\* `a.` followed by nothing has failed with AbruptEnd.
C8_Witness ==
    /\ Failed
    /\ src = <<Ident("a"), Dot>>
    /\ ended
    /\ ret.error = [kind |-> "AbruptEnd"]

\* The entries a step adds to the log.
NewCalls == {i \in 1..Len(calls') : i > Len(calls)}

\* C9: no backtracking with one token of lookahead.  The cursor position
\* never decreases; the lexer is never asked for more than the token at the
\* cursor position; every peek has lookahead index 0; and each branch decision
\* of the production (the base-case dispatch, the argument list after a `new`
\* callee, the continuation of the suffix loop) peeks the token at the current
\* position and consumes nothing.
C9_NoBacktracking ==
    /\ [](Len(src) <= pos + 1)
    /\ [][/\ pos' >= pos
          /\ \A i \in NewCalls :
                calls'[i].op = "peek" => (calls'[i].skip_n = 0 /\ calls'[i].at = pos)
          /\ (\/ Running("MemberExpression", "start")
              \/ Running("MemberExpression", "loop")
              \/ Running("MemberExpression", "new_callee") /\ ret.status = "ok")
                => /\ Len(calls') > Len(calls)
                   /\ calls'[Len(calls) + 1].op = "peek"
                   /\ calls'[Len(calls) + 1].skip_n = 0
                   /\ pos' = pos
       ]_vars

\* `new a().a` has been parsed: every kind of branch decision was taken and the
\* cursor went over the six tokens.
C9_Witness ==
    /\ Parsed
    /\ src = <<Kw("New", FALSE), Ident("a"), OpenParen, CloseParen, Dot, Ident("a")>>
    /\ pos = 6
    /\ Cardinality({i \in 1..Len(calls) :
                        calls[i].op = "peek" /\ calls[i].by = "MemberExpression"}) = 6

\* C10: the first failure aborts the whole production.  The step in which a
\* cursor operation or a delegated parser fails returns from the invocation
\* with an error; from then on every enclosing invocation returns that same
\* error, unchanged, as its next step, without touching the cursor, invoking a
\* parser or recording anything; so the error reaches the caller of the
\* top-level invocation and no node is returned.
C10_FirstFailureAborts ==
    [][/\ ret'.status = "err" => Len(stack') = Len(stack) - 1
       /\ ret.status = "err"
            => /\ ret' = ret
               /\ Len(stack') = Len(stack) - 1
               /\ UNCHANGED <<src, ended, pos, calls, used>>
    ]_vars

\* `new new a(]` has failed in the argument list, two `new` levels down, and
\* the error of the expression parser has reached the top.
C10_Witness ==
    /\ Failed
    /\ src = <<Kw("New", FALSE), Kw("New", FALSE), Ident("a"), OpenParen, CloseBracket>>
    /\ ret.error.kind = "Unexpected"
    /\ ret.error.span = 5

-----------------------------------------------------------------------------
\* The parsers the production delegates to, itself included.
DelegateOps ==
    {"PrimaryExpression", "Arguments", "Expression", "TaggedTemplateLiteral",
     "MemberExpression"}

\* The delegations the production itself has made so far.
Delegations ==
    {i \in 1..Len(calls) : calls[i].by = "MemberExpression" /\ calls[i].op \in DelegateOps}

\* C11: the yield-permitted and await-permitted flags of the top-level
\* invocation reach every delegated sub-parse unchanged, at every nesting depth
\* and in every iteration of the suffix loop: the primary-expression parser,
\* the argument-list parser, the computed-key expression parser, the
\* tagged-template parser and the recursive self-invocation are all invoked
\* with the original pair.
C11_FlagsForwarded ==
    \A i \in Delegations :
        /\ calls[i].args.allow_yield = self.allow_yield
        /\ calls[i].args.allow_await = self.allow_await

\* `new a[a]` followed by a template has been parsed: a self-invocation, the
\* primary-expression, expression and tagged-template parsers were invoked.
C11_Witness ==
    /\ Parsed
    /\ src = <<Kw("New", FALSE), Ident("a"), OpenBracket, Ident("a"), CloseBracket,
               TemplateNoSubstitution>>
    /\ {calls[i].op : i \in Delegations} =
          {"MemberExpression", "PrimaryExpression", "Expression", "TaggedTemplateLiteral"}
    /\ self.allow_yield # self.allow_await

-----------------------------------------------------------------------------
\* The token the step reads at the cursor is a token other than a private
\* identifier.
ReadsPlainToken ==
    /\ TokAfter(pos + 1) \notin {None, LexError}
    /\ TokAfter(pos + 1).kind # "PrivateIdentifier"

\* C12: a token after a dot is classified in the same way in the suffix loop
\* and after `super`, private identifiers apart.  An identifier stands for its
\* own symbol, a keyword for the symbol of its spelling, `true`, `false` and
\* `null` for the three reserved symbols, and each of them is accepted as the
\* key; every other token is rejected in both forms, in the suffix loop with
\* the error "expected identifier" in the context "member expression".
C12_SameKeys ==
    [][ReadsPlainToken =>
        LET t == TokAfter(pos + 1)
            lhs == stack[Len(stack)].lhs
        IN  /\ Running("MemberExpression", "super_dot") =>
                IF IsKeyToken(t)
                THEN /\ Len(stack') = Len(stack)
                     /\ stack'[Len(stack)].lhs =
                            [type |-> "GetSuperField", variant |-> "Const",
                             field |-> KeyOf(t)]
                ELSE /\ Len(stack') = Len(stack) - 1
                     /\ ret'.status = "err"
            /\ Running("MemberExpression", "dot_key") =>
                IF IsKeyToken(t)
                THEN /\ Len(stack') = Len(stack)
                     /\ stack'[Len(stack)].lhs =
                            [type |-> "GetConstField", obj |-> lhs, field |-> KeyOf(t)]
                ELSE /\ Len(stack') = Len(stack) - 1
                     /\ ret'.status = "err"
                     /\ ret'.error.kind = "Expected"
                     /\ ret'.error.expected = <<"identifier">>
                     /\ ret'.error.context = "member expression"
    ]_vars

\* `super.new.new` has been parsed: the keyword is the key in both forms.
C12_Witness ==
    /\ Parsed
    /\ src = <<Kw("Super", FALSE), Dot, Kw("New", FALSE), Dot, Kw("New", FALSE)>>
    /\ ret.value = [type |-> "GetConstField",
                    obj |-> [type |-> "GetSuperField", variant |-> "Const",
                             field |-> "new"],
                    field |-> "new"]

-----------------------------------------------------------------------------
\* C13: after an unescaped `super` the next token is consumed and has to be a
\* dot or an open-bracket; any other token makes the invocation return an
\* unexpected-token error with the context "expected super property", the
\* token and its span.  After `super` `.` a token that is neither a property
\* key nor a private identifier gives the same kind of error.  A bare `super`
\* never yields a node: an invocation that started at `super` holds a node only
\* after a dot or an open-bracket and one more token have been consumed.
C13_SuperNeedsProperty ==
    /\ [](\A d \in MemberFrames :
            (Tok(stack[d].start + 1) = Kw("Super", FALSE) /\ stack[d].pc \in LoopPcs)
                => /\ Tok(stack[d].start + 2) \in {Dot, OpenBracket}
                   /\ pos >= stack[d].start + 3)
    /\ [][(TokAfter(pos + 1) \notin {None, LexError}) =>
            LET t == TokAfter(pos + 1)
                unexpected == [status |-> "err",
                               error |-> [kind |-> "Unexpected", found |-> TokenToString(t),
                                          span |-> pos + 1,
                                          context |-> "expected super property"]]
            IN  /\ Running("MemberExpression", "super_property") =>
                    /\ pos' = pos + 1
                    /\ IF t \in {Dot, OpenBracket}
                       THEN Len(stack') = Len(stack) /\ ret'.status # "err"
                       ELSE Len(stack') = Len(stack) - 1 /\ ret' = unexpected
                /\ (Running("MemberExpression", "super_dot")
                        /\ ~IsKeyToken(t) /\ t.kind # "PrivateIdentifier") =>
                    /\ pos' = pos + 1
                    /\ Len(stack') = Len(stack) - 1
                    /\ ret' = unexpected
       ]_vars

\* `super(` has failed at the parenthesis.
C13_Witness ==
    /\ Failed
    /\ src = <<Kw("Super", FALSE), OpenParen>>
    /\ ret.error = [kind |-> "Unexpected", found |-> "(", span |-> 2,
                    context |-> "expected super property"]
    /\ pos = 2

-----------------------------------------------------------------------------
\* The recursion depth of MemberExpression::parse.
Depth == Cardinality(MemberFrames)

\* The messages of the general errors of the parsers.
GeneralMessages ==
    {"keyword must not contain escaped characters", "unexpected private identifier",
     "private identifier must be declared in an enclosing class",
     "cannot parse tagged template literal"}

\* C14: a depth guard bounds the recursion through `new`: the recursion depth
\* of MemberExpression::parse never exceeds the configured limit.  Whatever the
\* limit is among those an input of MaxLen tokens can exceed, the depth stays
\* within MaxLen.
C14_DepthGuard == \E limit \in 1..MaxLen : Depth <= limit

\* What the production does instead: it has no depth guard.  Every
\* unescaped `new` keyword, at whatever depth, is consumed and followed by a
\* further invocation of the production, so that each nested invocation was
\* started right after a `new` by the invocation below it and the depth is one
\* more than the number of `new` keywords being parsed; no error is a
\* recursion-depth error.
RecursionFollowsInput ==
    /\ [](/\ \A d \in MemberFrames :
                d > 1 => /\ stack[d - 1].fn = "MemberExpression"
                         /\ stack[d - 1].pc = "new_callee"
                         /\ Tok(stack[d].start) = Kw("New", FALSE)
          /\ ret.status = "err" =>
                /\ ret.error.kind \in {"AbruptEnd", "General", "Unexpected", "Expected", "Lex"}
                /\ ret.error.kind = "General" => ret.error.message \in GeneralMessages)
    /\ [][Running("MemberExpression", "new") =>
            /\ Len(stack') = Len(stack) + 1
            /\ stack'[Len(stack')].fn = "MemberExpression"
            /\ stack'[Len(stack')].pc = "start"
            /\ ret'.status # "err"
            /\ pos' = pos + 1
       ]_vars

\* The input is nothing but `new` keywords and the recursion is one level
\* deeper than the input is long.
DeepestRecursion ==
    /\ Len(src) = MaxLen
    /\ \A i \in 1..Len(src) : src[i] = Kw("New", FALSE)
    /\ Depth = MaxLen + 1

-----------------------------------------------------------------------------
\* The token starts a suffix of a member expression.
StartsSuffix(tok) ==
    \/ tok \in {Dot, OpenBracket}
    \/ tok.kind \in {"TemplateNoSubstitution", "TemplateMiddle"}

\* The cursor operations that consume a token.
Consuming == {"next", "expect", "lex_template"}

\* An invocation of MemberExpression::parse returns a node in this step.
ReturnsNode ==
    /\ stack # <<>>
    /\ Top.fn = "MemberExpression"
    /\ Len(stack') = Len(stack) - 1
    /\ ret'.status = "ok"

\* C15: whenever MemberExpression::parse returns a node, at whatever depth of
\* the recursion, the token at the cursor, if there is one, is not a dot, not
\* an open bracket and not a template token; that token has only been peeked:
\* the returning step leaves the cursor where it was, its last cursor
\* operation is a peek at that position and no consuming operation was made at
\* or after it, so it is the next token the caller reads.
C15_MaximalSuffix ==
    [][ReturnsNode =>
          /\ pos' = pos
          /\ TokAfter(pos + 1) # None => ~StartsSuffix(TokAfter(pos + 1))
          /\ TokAfter(pos + 1) = None => ended'
          /\ calls'[Len(calls')].op = "peek"
          /\ calls'[Len(calls')].at = pos
          /\ calls'[Len(calls')].skip_n = 0
          /\ \A i \in 1..Len(calls') :
                calls'[i].op \in Consuming => calls'[i].at < pos
       ]_vars

\* `a.a)` has been parsed: the close-paren ended the suffix loop, was lexed by
\* the peek and is still ahead of the cursor.
C15_Witness ==
    /\ Parsed
    /\ src = <<Ident("a"), Dot, Ident("a"), CloseParen>>
    /\ pos = 3
    /\ ret.value = GetConstField(Operand(Ident("a")), "a")

-----------------------------------------------------------------------------
\* The cursor position of the latest peek made by the invocation at depth d:
\* while that invocation is in an arm of its suffix loop, the peek at the head
\* of the iteration.
LastPeekAt(d) ==
    LET peeks == {i \in 1..Len(calls) : /\ calls[i].op = "peek"
                                        /\ calls[i].by = "MemberExpression"
                                        /\ calls[i].depth = d}
        last == CHOOSE i \in peeks : \A j \in peeks : j <= i
    IN  calls[last].at

\* A recursive self-invocation starts in this step.
SelfInvocation ==
    /\ stack # <<>>
    /\ Top.fn = "MemberExpression"
    /\ Len(stack') = Len(stack) + 1
    /\ stack'[Len(stack')].fn = "MemberExpression"

\* An iteration of the suffix loop ends in this step without leaving the loop.
NextIteration ==
    /\ stack # <<>>
    /\ Top.fn = "MemberExpression"
    /\ Top.pc \in LoopPcs \ {"loop"}
    /\ Len(stack') = Len(stack)
    /\ stack'[Len(stack')].pc = "loop"

\* C16: every recursive self-invocation is made in the step that consumes the
\* `new` token, every iteration of the suffix loop that does not exit leaves
\* the cursor beyond where the iteration's peek found it, the cursor never
\* moves back, and on every input (of at most MaxLen tokens) the top-level
\* invocation eventually returns a node or an error.
C16_Termination ==
    /\ <>(Done /\ ret.status \in {"ok", "err"})
    /\ [][/\ SelfInvocation => /\ pos' = pos + 1
                                /\ Tok(pos') = Kw("New", FALSE)
                                /\ calls'[Len(calls') - 1] = CursorOp("next")
          /\ NextIteration => pos' > LastPeekAt(Len(stack))
          /\ pos' >= pos
       ]_vars

\* `new a.a` has been parsed: one self-invocation and one iteration of the
\* suffix loop, then the end of the input, and the invocation has returned.
C16_Witness ==
    /\ Parsed
    /\ src = <<Kw("New", FALSE), Ident("a"), Dot, Ident("a")>>
    /\ ended
    /\ pos = 4

-----------------------------------------------------------------------------
\* The invocations of the primary-expression parser made so far.
PrimaryCalls == {i \in Delegations : calls[i].op = "PrimaryExpression"}

\* The recursive self-invocations made so far.
SelfCalls == {i \in Delegations : calls[i].op = "MemberExpression"}

\* C17: across the top-level invocation and all its `new` recursion levels the
\* primary-expression parser is invoked at most once; that invocation is made
\* at the innermost level (below every self-invocation, with none after it),
\* on a base token that is neither `new` nor `super`, and passes the
\* identifier hint the top-level parser was constructed with; when the base is
\* `super` it is never invoked; every computed-key expression parse is invoked
\* with no hint and with `in` allowed.
C17_HintForBaseOnly ==
    /\ Cardinality(PrimaryCalls) <= 1
    /\ \A i \in PrimaryCalls :
          /\ calls[i].args.name = self.name
          /\ calls[i].depth = Cardinality(SelfCalls) + 1
          /\ \A j \in SelfCalls : j < i
          /\ calls[i].at = LeadingNews(1)
          /\ Tok(calls[i].at + 1) \notin {Kw("New", FALSE), Kw("Super", FALSE)}
    /\ Tok(LeadingNews(1) + 1) = Kw("Super", FALSE) => PrimaryCalls = {}
    /\ \A i \in Delegations :
          calls[i].op = "Expression" => /\ calls[i].args.name = NoName
                                        /\ calls[i].args.allow_in = TRUE

\* `new new a[a]` has been parsed by a parser constructed with a hint: the
\* primary-expression parser was invoked once, two levels down, with that
\* hint, and the expression parser once, with none.
C17_Witness ==
    /\ Parsed
    /\ src = <<Kw("New", FALSE), Kw("New", FALSE), Ident("a"), OpenBracket, Ident("a"),
               CloseBracket>>
    /\ self.name = Some("f")
    /\ \E i \in PrimaryCalls : calls[i].depth = 3 /\ calls[i].args.name = Some("f")
    /\ \E i \in Delegations : calls[i].op = "Expression" /\ calls[i].args.name = NoName

====
